---- MODULE Spec2Model ----
(***************************************************************************)
(* PendingTransactionTracker (src/unnamed/part_000, lines 151-357).        *)
(*                                                                         *)
(* updatePendingTxs ("reconcile-pending") and resubmitPendingTxs           *)
(* ("resubmit-pending") are modelled at the granularity of the JavaScript  *)
(* event loop: one action is the synchronous run of code between two       *)
(* awaits.  The collaborators (nonce tracker, ledger query, pending and    *)
(* completed providers, publish, approve) are the environment: every reply *)
(* is drawn from a small set.                                              *)
(***************************************************************************)
EXTENDS Integers, Sequences, FiniteSets, TLC

\* ---------------------------------------------------------------- bounds
NumItems == 2          \* txMeta objects; getPendingTransactions returns 0..NumItems of them
MaxInFlight == 2       \* ticks whose per-item checks may still be in flight
BlockBase == 14        \* resubmit ticks see blocks BlockBase .. BlockBase + BlockSpan
BlockSpan == 4

\* ------------------------------------------------------ program constants
DROPPED_BUFFER_COUNT == 3

\* ------------------------------------------------------------ hex strings
\* A hex string "0x.." is the sequence of its digits after the prefix.
RECURSIVE ParseInt16(_)
ParseInt16(s) ==
    IF Len(s) = 0 THEN 0
    ELSE 16 * ParseInt16(SubSeq(s, 1, Len(s) - 1)) + s[Len(s)]

RECURSIVE ToHex(_)
ToHex(n) == IF n < 16 THEN <<n>> ELSE Append(ToHex(n \div 16), n % 16)

\* ------------------------------------------------------------ value sets
Ids == 1..NumItems
Gens == 0..(MaxInFlight - 1)       \* 0 is the latest tick, g the g-th before it
Slots == Gens \X Ids
Addrs == {"a1", "a2"}
NoHash == "none"
HashOf(i) == ToString(i)
Hashes == {HashOf(i) : i \in Ids}
NonceOf(i) == ToHex(i - 1)
Nonces == {NonceOf(i) : i \in Ids}
NetworkNonces == 0..NumItems
BaseFees == {7, 9}
\* A message is the sequence of its characters.
MsgNetworkError == <<"N", "e", "t", "w", "o", "r", "k", " ", "E", "r", "r", "o", "r">>
NoWarning == [error |-> <<>>, message |-> ""]
NullReceipt == <<>>
ReceiptVals == {<<[blockNumber |-> b, blockHash |-> "bh"]>> : b \in {0, 5}}
\* transactionReceipt?.blockNumber (line 288)
HasBlockNumber(r) == IF r = NullReceipt THEN FALSE ELSE r[1].blockNumber # 0
NoEvent == [kind |-> "", id |-> 0, rcpt |-> NullReceipt, baseFee |-> 0, err |-> ""]

VARIABLES
    txs,                        \* the txMeta objects
    pending,                    \* ids getPendingTransactions returns
    completed,                  \* what getCompletedTransactions draws from
    droppedBlocksBufferByHash,  \* Map hash -> counter
    lockHeld,                   \* the nonce tracker's global lock
    upd,                        \* the latest updatePendingTxs invocation
    checks,                     \* the _checkPendingTx promises, by tick and item
    observations,               \* history: superseded-nonce observations per hash
    resubs,                     \* the _resubmitTx promises, by tick and item
    latestBlock,                \* number of the block of the latest resubmit tick
    resubmitted                 \* history: items some resubmit tick has processed

vars == <<txs, pending, completed, droppedBlocksBufferByHash, lockHeld, upd, checks,
          observations, resubs, latestBlock, resubmitted>>

IdleCheck ==
    [pc |-> "idle", emitted |-> <<>>, queries |-> <<>>, rcpt |-> NullReceipt,
     block |-> <<>>, failed |-> ""]

Running(c) == c.pc \in {"receipt", "block", "nonce"}

\* No rejection: publish or approve has not failed.
NoError == [value |-> <<>>, message |-> <<>>]

IdleResub ==
    [pc |-> "idle", emitted |-> <<>>, latest |-> <<>>, first |-> <<>>, retryCount |-> 0,
     called |-> "", error |-> NoError]

Resubmitting(c) == c.pc \in {"approve", "publish"}

Event(kind, id) == [NoEvent EXCEPT !.kind = kind, !.id = id]

\* ------------------------------------------------- _checkIfNonceIsTaken
getCompletedTransactions(address) == {c \in completed : c.from = address}

\* Variant: the identity test of lines 351-353 is left out.
NonceIsTaken_NoIdentityTest(i) ==
    \E otherMeta \in getCompletedTransactions(txs[i].from) :
        otherMeta.nonce = txs[i].nonce

_checkIfNonceIsTaken(i) ==
    \E otherMeta \in getCompletedTransactions(txs[i].from) :
        /\ otherMeta.id # i
        /\ otherMeta.nonce = txs[i].nonce

\* ------------------------------------- _checkPendingTx up to its first await
\* Variant: the nonce-collision test runs before the missing-hash test.
CheckPrefix_NonceBeforeHash(i, completedThrows) ==
    IF txs[i].status # "submitted" THEN
        [IdleCheck EXCEPT !.pc = "done"]
    ELSE IF completedThrows THEN
        [IdleCheck EXCEPT !.pc = "rejected", !.failed = "getCompletedTransactions"]
    ELSE IF _checkIfNonceIsTaken(i) THEN
        [IdleCheck EXCEPT !.pc = "done", !.emitted = <<Event("tx:dropped", i)>>]
    ELSE IF txs[i].hash = NoHash THEN
        [IdleCheck EXCEPT !.pc = "done",
            !.emitted = <<[Event("tx:failed", i) EXCEPT !.err = "NoTxHashError"]>>]
    ELSE
        [IdleCheck EXCEPT !.pc = "receipt", !.queries = <<"getTransactionReceipt">>]

\* Variant: the status test of line 269 is missing.
CheckPrefix_NoStatusTest(i, completedThrows) ==
    IF txs[i].hash = NoHash THEN
        [IdleCheck EXCEPT !.pc = "done",
            !.emitted = <<[Event("tx:failed", i) EXCEPT !.err = "NoTxHashError"]>>]
    ELSE IF completedThrows THEN
        [IdleCheck EXCEPT !.pc = "rejected", !.failed = "getCompletedTransactions"]
    ELSE IF _checkIfNonceIsTaken(i) THEN
        [IdleCheck EXCEPT !.pc = "done", !.emitted = <<Event("tx:dropped", i)>>]
    ELSE
        [IdleCheck EXCEPT !.pc = "receipt", !.queries = <<"getTransactionReceipt">>]

\* completedThrows: getCompletedTransactions throws for this call.
CheckPrefix(i, completedThrows) ==
    IF txs[i].status # "submitted" THEN
        [IdleCheck EXCEPT !.pc = "done"]
    ELSE IF txs[i].hash = NoHash THEN
        [IdleCheck EXCEPT !.pc = "done",
            !.emitted = <<[Event("tx:failed", i) EXCEPT !.err = "NoTxHashError"]>>]
    ELSE IF completedThrows THEN
        [IdleCheck EXCEPT !.pc = "rejected", !.failed = "getCompletedTransactions"]
    ELSE IF _checkIfNonceIsTaken(i) THEN
        [IdleCheck EXCEPT !.pc = "done", !.emitted = <<Event("tx:dropped", i)>>]
    ELSE
        [IdleCheck EXCEPT !.pc = "receipt", !.queries = <<"getTransactionReceipt">>]

\* ------------------------------------ _checkIfTxWasDropped after its await
\* The Map operations of lines 326-338 run in one synchronous stretch.
Without(buf, txHash) == [h \in (DOMAIN buf) \ {txHash} |-> buf[h]]

\* Variant: the threshold test of line 332 is <= instead of <.
DropDetect_OffByOne(buf, txHash, nonce, networkNextNonce) ==
    IF ParseInt16(nonce) >= networkNextNonce THEN
        [buf |-> buf, dropped |-> FALSE]
    ELSE
        LET b1 == IF txHash \in DOMAIN buf THEN buf ELSE (txHash :> 0) @@ buf
            currentBlockBuffer == b1[txHash]
        IN  IF currentBlockBuffer <= DROPPED_BUFFER_COUNT THEN
                [buf |-> [b1 EXCEPT ![txHash] = currentBlockBuffer + 1],
                 dropped |-> FALSE]
            ELSE
                [buf |-> Without(b1, txHash), dropped |-> TRUE]

\* Variant: the nonce test of line 322 is > instead of >=.
DropDetect_EqualNonceCounts(buf, txHash, nonce, networkNextNonce) ==
    IF ParseInt16(nonce) > networkNextNonce THEN
        [buf |-> buf, dropped |-> FALSE]
    ELSE
        LET b1 == IF txHash \in DOMAIN buf THEN buf ELSE (txHash :> 0) @@ buf
            currentBlockBuffer == b1[txHash]
        IN  IF currentBlockBuffer < DROPPED_BUFFER_COUNT THEN
                [buf |-> [b1 EXCEPT ![txHash] = currentBlockBuffer + 1],
                 dropped |-> FALSE]
            ELSE
                [buf |-> Without(b1, txHash), dropped |-> TRUE]

\* Variant: line 327 sets the entry to 0 without the has() test of line 326.
DropDetect_AlwaysInit(buf, txHash, nonce, networkNextNonce) ==
    IF ParseInt16(nonce) >= networkNextNonce THEN
        [buf |-> buf, dropped |-> FALSE]
    ELSE
        LET b1 == (txHash :> 0) @@ buf
            currentBlockBuffer == b1[txHash]
        IN  IF currentBlockBuffer < DROPPED_BUFFER_COUNT THEN
                [buf |-> [b1 EXCEPT ![txHash] = currentBlockBuffer + 1],
                 dropped |-> FALSE]
            ELSE
                [buf |-> Without(b1, txHash), dropped |-> TRUE]

\* lines 322-338
DropDetect(buf, txHash, nonce, networkNextNonce) ==
    IF ParseInt16(nonce) >= networkNextNonce THEN
        [buf |-> buf, dropped |-> FALSE]
    ELSE
        LET b1 == IF txHash \in DOMAIN buf THEN buf ELSE (txHash :> 0) @@ buf
            currentBlockBuffer == b1[txHash]
        IN  IF currentBlockBuffer < DROPPED_BUFFER_COUNT THEN
                [buf |-> [b1 EXCEPT ![txHash] = currentBlockBuffer + 1],
                 dropped |-> FALSE]
            ELSE
                [buf |-> Without(b1, txHash), dropped |-> TRUE]

\* ----------------------------------------------------------------- Init
\* One sender submits with successive nonces; a hash is unique to its item.
TxInit(i) ==
    [status : {"submitted", "approved"}, hash : {NoHash, HashOf(i)},
     from : {"a1"}, nonce : {NonceOf(i)}, warning : {NoWarning},
     rawTx : {TRUE}, firstRetryBlockNumber : {<<>>}, retryCount : {<<>>}]

AbsentTx(i) ==
    [status |-> "approved", hash |-> NoHash, from |-> "a1", nonce |-> NonceOf(i),
     warning |-> NoWarning, rawTx |-> FALSE, firstRetryBlockNumber |-> <<>>,
     retryCount |-> <<>>]

\* A completed item is another transaction, or item 1 itself caught between the
\* two provider calls.
CompletedItems ==
    [id : {NumItems + 1}, from : Addrs, nonce : Nonces]
        \cup {[id |-> 1, from |-> "a1", nonce |-> NonceOf(1)]}

IdleUpd ==
    [pc |-> "idle", acquired |-> 0, released |-> 0, threw |-> FALSE, logged |-> FALSE]

Init ==
    /\ pending \in {1..k : k \in 0..NumItems}
    /\ txs \in [Ids -> UNION {TxInit(i) : i \in Ids}]
    /\ \A i \in Ids : IF i \in pending THEN txs[i] \in TxInit(i) ELSE txs[i] = AbsentTx(i)
    /\ completed \in {{}} \cup {{c} : c \in CompletedItems}
    /\ droppedBlocksBufferByHash = <<>>
    /\ lockHeld = FALSE
    /\ upd = IdleUpd
    /\ checks = [s \in Slots |-> IdleCheck]
    /\ observations = [h \in Hashes |-> 0]
    /\ resubs = [s \in Slots |-> IdleResub]
    /\ latestBlock = BlockBase
    /\ resubmitted = {}

\* ------------------------------------------------------ updatePendingTxs
\* The caller awaits one invocation before the next; checks an invocation left
\* running stay in flight, at most MaxInFlight - 1 ticks back.
CanCall ==
    /\ upd.pc \in {"idle", "returned"}
    /\ ~lockHeld
    /\ \A i \in Ids : ~Running(checks[<<MaxInFlight - 1, i>>])

\* line 173: getGlobalLock rejects; the rejection reaches the caller.
UpdLockFails ==
    /\ CanCall
    /\ upd' = [IdleUpd EXCEPT !.pc = "returned", !.threw = TRUE]
    /\ UNCHANGED <<txs, pending, completed, droppedBlocksBufferByHash, lockHeld, checks,
                   observations, resubs, latestBlock, resubmitted>>

\* line 175 throws: caught at 177, logged, lock released at 181.
UpdPendingThrows ==
    /\ CanCall
    /\ upd' = [IdleUpd EXCEPT !.pc = "returned", !.acquired = 1, !.released = 1,
                              !.logged = TRUE]
    /\ UNCHANGED <<txs, pending, completed, droppedBlocksBufferByHash, lockHeld, checks,
                   observations, resubs, latestBlock, resubmitted>>

\* The checks of earlier ticks that are still awaiting a reply move one tick back.
Aged(s) ==
    IF s[1] > 0 /\ Running(checks[<<s[1] - 1, s[2]>>])
    THEN checks[<<s[1] - 1, s[2]>>] ELSE IdleCheck

\* lines 173-176: lock acquired, every _checkPendingTx runs to its first await.
UpdStart ==
    /\ CanCall
    /\ \E completedThrows \in [pending -> BOOLEAN] :
        checks' = [s \in Slots |->
                     IF s[1] = 0 /\ s[2] \in pending
                     THEN CheckPrefix(s[2], completedThrows[s[2]])
                     ELSE Aged(s)]
    /\ lockHeld' = TRUE
    /\ upd' = [IdleUpd EXCEPT !.pc = "awaiting", !.acquired = 1]
    /\ UNCHANGED <<txs, pending, completed, droppedBlocksBufferByHash, observations, resubs, latestBlock, resubmitted>>

\* Promise.all: rejects with the first rejection, else resolves when all have.
PromiseAllSettles ==
    \/ \E i \in pending : checks[<<0, i>>].pc = "rejected"
    \/ \A i \in pending : checks[<<0, i>>].pc = "done"

\* Variant: releaseLock sits inside the try block, after the await.
UpdSettle_ReleaseInTry ==
    /\ upd.pc = "awaiting"
    /\ PromiseAllSettles
    /\ LET rejected == \E i \in pending : checks[<<0, i>>].pc = "rejected"
       IN  /\ upd' = [upd EXCEPT !.pc = "returned", !.logged = rejected,
                                 !.released = IF rejected THEN @ ELSE @ + 1]
           /\ lockHeld' = rejected
    /\ checks' = [s \in Slots |-> IF Running(checks[s]) THEN checks[s] ELSE IdleCheck]
    /\ UNCHANGED <<txs, pending, completed, droppedBlocksBufferByHash, observations, resubs, latestBlock, resubmitted>>

\* Variant: a rejection cancels the checks that are still awaiting a reply.
UpdSettle_AbortsSiblings ==
    /\ upd.pc = "awaiting"
    /\ PromiseAllSettles
    /\ LET rejected == \E i \in pending : checks[<<0, i>>].pc = "rejected"
       IN  /\ upd' = [upd EXCEPT !.pc = "returned", !.logged = rejected,
                                 !.released = @ + 1]
           /\ checks' = [s \in Slots |->
                           IF Running(checks[s]) /\ ~(rejected /\ s[1] = 0)
                           THEN checks[s] ELSE IdleCheck]
    /\ lockHeld' = FALSE
    /\ UNCHANGED <<txs, pending, completed, droppedBlocksBufferByHash, observations, resubs, latestBlock, resubmitted>>

\* lines 176-181: the await returns or throws into the catch; lock released.
\* The settled promises are dropped with the array that held them.
UpdSettle ==
    /\ upd.pc = "awaiting"
    /\ PromiseAllSettles
    /\ upd' = [upd EXCEPT !.pc = "returned", !.released = upd.released + 1,
                          !.logged = \E i \in pending : checks[<<0, i>>].pc = "rejected"]
    /\ lockHeld' = FALSE
    /\ checks' = [s \in Slots |-> IF Running(checks[s]) THEN checks[s] ELSE IdleCheck]
    /\ UNCHANGED <<txs, pending, completed, droppedBlocksBufferByHash, observations, resubs, latestBlock, resubmitted>>

\* ------------------------------------------------------- _checkPendingTx
Warn(s, err) ==
    /\ txs' = [txs EXCEPT ![s[2]].warning =
                 [error |-> MsgNetworkError,
                  message |-> "There was a problem loading this transaction."]]
    /\ checks' = [checks EXCEPT ![s] =
                 [@ EXCEPT !.pc = "done", !.failed = checks[s].queries[Len(checks[s].queries)],
                           !.emitted = Append(@, [Event("tx:warning", s[2]) EXCEPT !.err = err])]]

\* line 287 rejects: catch at 293.
ReceiptFails(s) ==
    /\ checks[s].pc = "receipt"
    /\ Warn(s, "NetworkError")
    /\ UNCHANGED <<pending, completed, droppedBlocksBufferByHash, lockHeld, upd, observations, resubs, latestBlock, resubmitted>>

\* line 288 true: getBlockByHash is called.
ReceiptMined(s) ==
    /\ checks[s].pc = "receipt"
    /\ \E r \in {NullReceipt} \cup ReceiptVals :
        /\ HasBlockNumber(r)
        /\ checks' = [checks EXCEPT ![s] =
                        [@ EXCEPT !.pc = "block", !.rcpt = r,
                                  !.queries = Append(@, "getBlockByHash")]]
    /\ UNCHANGED <<txs, pending, completed, droppedBlocksBufferByHash, lockHeld, upd,
                   observations, resubs, latestBlock, resubmitted>>

\* line 288 false (null receipt, or one without a block number): line 303 calls
\* _checkIfTxWasDropped, which runs to its await at line 320.
ReceiptAbsent(s) ==
    /\ checks[s].pc = "receipt"
    /\ \E r \in {NullReceipt} \cup ReceiptVals :
        /\ ~HasBlockNumber(r)
        /\ checks' = [checks EXCEPT ![s] =
                        [@ EXCEPT !.pc = "nonce",
                                  !.queries = Append(@, "getTransactionCount")]]
    /\ UNCHANGED <<txs, pending, completed, droppedBlocksBufferByHash, lockHeld, upd,
                   observations, resubs, latestBlock, resubmitted>>

\* line 289 rejects, or resolves to null and the destructuring throws: catch at 293.
BlockFails(s) ==
    /\ checks[s].pc = "block"
    /\ Warn(s, "NetworkError")
    /\ UNCHANGED <<pending, completed, droppedBlocksBufferByHash, lockHeld, upd, observations, resubs, latestBlock, resubmitted>>

\* Variant: the base fee is not passed on to the notification.
BlockOk_DropsBaseFee(s) ==
    /\ checks[s].pc = "block"
    /\ \E block \in {<<[baseFeePerGas |-> fee]>> : fee \in BaseFees} :
        checks' = [checks EXCEPT ![s] =
                     [@ EXCEPT !.pc = "done", !.block = block,
                               !.emitted = Append(@, [Event("tx:confirmed", s[2]) EXCEPT
                                                        !.rcpt = checks[s].rcpt])]]
    /\ UNCHANGED <<txs, pending, completed, droppedBlocksBufferByHash, lockHeld, upd,
                   observations, resubs, latestBlock, resubmitted>>

\* Variant: the return of line 291 is missing, so line 303 runs after tx:confirmed.
BlockOk_NoReturn(s) ==
    /\ checks[s].pc = "block"
    /\ \E block \in {<<[baseFeePerGas |-> fee]>> : fee \in BaseFees} :
        checks' = [checks EXCEPT ![s] =
                     [@ EXCEPT !.pc = "nonce", !.block = block,
                               !.queries = Append(@, "getTransactionCount"),
                               !.emitted = Append(@, [Event("tx:confirmed", s[2]) EXCEPT
                                                        !.rcpt = checks[s].rcpt,
                                                        !.baseFee = block[1].baseFeePerGas])]]
    /\ UNCHANGED <<txs, pending, completed, droppedBlocksBufferByHash, lockHeld, upd,
                   observations, resubs, latestBlock, resubmitted>>

\* lines 289-291.
BlockOk(s) ==
    /\ checks[s].pc = "block"
    /\ \E block \in {<<[baseFeePerGas |-> fee]>> : fee \in BaseFees} :
        checks' = [checks EXCEPT ![s] =
                     [@ EXCEPT !.pc = "done", !.block = block,
                               !.emitted = Append(@, [Event("tx:confirmed", s[2]) EXCEPT
                                                        !.rcpt = checks[s].rcpt,
                                                        !.baseFee = block[1].baseFeePerGas])]]
    /\ UNCHANGED <<txs, pending, completed, droppedBlocksBufferByHash, lockHeld, upd,
                   observations, resubs, latestBlock, resubmitted>>

\* line 320 rejects: nothing catches it inside _checkPendingTx (the try block
\* ended at line 301), so the promise handed to Promise.all rejects.
NonceFails(s) ==
    /\ checks[s].pc = "nonce"
    /\ checks' = [checks EXCEPT ![s] =
                    [@ EXCEPT !.pc = "rejected", !.failed = "getTransactionCount"]]
    /\ UNCHANGED <<txs, pending, completed, droppedBlocksBufferByHash, lockHeld, upd,
                   observations, resubs, latestBlock, resubmitted>>

\* lines 320-338, then 303-305.
NonceReply(s) ==
    /\ checks[s].pc = "nonce"
    /\ \E networkNextNonce \in NetworkNonces :
        LET i == s[2]
            txHash == txs[i].hash
            res == DropDetect(droppedBlocksBufferByHash, txHash, txs[i].nonce,
                              networkNextNonce)
            superseded == ParseInt16(txs[i].nonce) < networkNextNonce
        IN  /\ droppedBlocksBufferByHash' = res.buf
            /\ checks' = [checks EXCEPT ![s] =
                 [@ EXCEPT !.pc = "done",
                           !.emitted = IF res.dropped
                                       THEN Append(@, Event("tx:dropped", i)) ELSE @]]
            /\ observations' =
                 IF ~superseded THEN observations
                 ELSE [observations EXCEPT ![txHash] = IF res.dropped THEN 0 ELSE @ + 1]
    /\ UNCHANGED <<txs, pending, completed, lockHeld, upd, resubs, latestBlock, resubmitted>>

CheckStep(s) ==
    \/ ReceiptFails(s)
    \/ ReceiptMined(s)
    \/ ReceiptAbsent(s)
    \/ BlockFails(s)
    \/ BlockOk(s)
    \/ NonceFails(s)
    \/ NonceReply(s)

Next ==
    \/ UpdLockFails
    \/ UpdPendingThrows
    \/ UpdStart
    \/ UpdSettle
    \/ \E s \in Slots : CheckStep(s)

Spec == Init /\ [][Next]_vars

\* Every collaborator call returns or fails, and the event loop runs what is ready.
FairSpec ==
    /\ Spec
    /\ WF_vars(UpdSettle)
    /\ \A s \in Slots : WF_vars(CheckStep(s))

TypeOK ==
    /\ lockHeld \in BOOLEAN
    /\ \A s \in Slots : checks[s].pc \in {"idle", "receipt", "block", "nonce", "done", "rejected"}
    /\ \A h \in DOMAIN droppedBlocksBufferByHash :
         droppedBlocksBufferByHash[h] \in 0..DROPPED_BUFFER_COUNT

\* ==================================================== resubmitPendingTxs
UpperCase == <<"A", "B", "C", "D", "E", "F", "G", "H", "I", "J", "K", "L", "M", "N", "O", "P", "Q", "R", "S", "T", "U", "V", "W", "X", "Y", "Z">>
LowerCase == <<"a", "b", "c", "d", "e", "f", "g", "h", "i", "j", "k", "l", "m", "n", "o", "p", "q", "r", "s", "t", "u", "v", "w", "x", "y", "z">>
ToLowerChar(c) ==
    IF \E k \in 1..Len(UpperCase) : UpperCase[k] = c
    THEN LowerCase[CHOOSE k \in 1..Len(UpperCase) : UpperCase[k] = c]
    ELSE c
toLowerCase(m) == [k \in 1..Len(m) |-> ToLowerChar(m[k])]
includes(m, sub) ==
    \E k \in 0..(Len(m) - Len(sub)) : SubSeq(m, k + 1, k + Len(sub)) = sub

KnownUnderpriced ==
    <<"r", "e", "p", "l", "a", "c", "e", "m", "e", "n", "t", " ", "t", "r", "a", "n", "s", "a", "c", "t", "i", "o", "n", " ", "u", "n", "d", "e", "r", "p", "r", "i", "c", "e", "d">>
KnownKnownTransaction ==
    <<"k", "n", "o", "w", "n", " ", "t", "r", "a", "n", "s", "a", "c", "t", "i", "o", "n">>
KnownGasPriceTooLow ==
    <<"g", "a", "s", " ", "p", "r", "i", "c", "e", " ", "t", "o", "o", " ", "l", "o", "w", " ", "t", "o", " ", "r", "e", "p", "l", "a", "c", "e">>
KnownSameHash ==
    <<"t", "r", "a", "n", "s", "a", "c", "t", "i", "o", "n", " ", "w", "i", "t", "h", " ", "t", "h", "e", " ", "s", "a", "m", "e", " ", "h", "a", "s", "h", " ", "w", "a", "s", " ", "a", "l", "r", "e", "a", "d", "y", " ", "i", "m", "p", "o", "r", "t", "e", "d">>
KnownGatewayTimeout ==
    <<"g", "a", "t", "e", "w", "a", "y", " ", "t", "i", "m", "e", "o", "u", "t">>
KnownNonceTooLow ==
    <<"n", "o", "n", "c", "e", " ", "t", "o", "o", " ", "l", "o", "w">>

\* What publishTransaction and approveTransaction reject with: value is
\* error.value.message (empty when there is none), message is error.message.
ErrUnderpriced ==
    [value |-> <<>>,
     message |-> <<"r", "e", "p", "l", "a", "c", "e", "m", "e", "n", "t", " ", "t", "r", "a", "n", "s", "a", "c", "t", "i", "o", "n", " ", "u", "n", "d", "e", "r", "p", "r", "i", "c", "e", "d">>]
ErrKnownTransaction ==
    [value |-> <<>>,
     message |-> <<"k", "n", "o", "w", "n", " ", "t", "r", "a", "n", "s", "a", "c", "t", "i", "o", "n", ":", " ", "5", "f">>]
ErrGasPriceTooLow ==
    [value |-> <<>>,
     message |-> <<"T", "r", "a", "n", "s", "a", "c", "t", "i", "o", "n", " ", "g", "a", "s", " ", "p", "r", "i", "c", "e", " ", "t", "o", "o", " ", "l", "o", "w", " ", "t", "o", " ", "r", "e", "p", "l", "a", "c", "e">>]
ErrSameHash ==
    [value |-> <<>>,
     message |-> <<"T", "r", "a", "n", "s", "a", "c", "t", "i", "o", "n", " ", "w", "i", "t", "h", " ", "t", "h", "e", " ", "s", "a", "m", "e", " ", "h", "a", "s", "h", " ", "w", "a", "s", " ", "a", "l", "r", "e", "a", "d", "y", " ", "i", "m", "p", "o", "r", "t", "e", "d", ".">>]
ErrGatewayTimeout ==
    [value |-> <<"G", "a", "t", "e", "w", "a", "y", " ", "T", "i", "m", "e", "o", "u", "t">>,
     message |-> <<"I", "n", "t", "e", "r", "n", "a", "l", " ", "e", "r", "r", "o", "r">>]
ErrNonceTooLow ==
    [value |-> <<>>,
     message |-> <<"N", "o", "n", "c", "e", " ", "t", "o", "o", " ", "l", "o", "w">>]
ErrInsufficientFunds ==
    [value |-> <<>>,
     message |-> <<"I", "n", "s", "u", "f", "f", "i", "c", "i", "e", "n", "t", " ", "f", "u", "n", "d", "s">>]
ErrRejected ==
    [value |-> <<"R", "e", "q", "u", "e", "s", "t", " ", "r", "e", "j", "e", "c", "t", "e", "d">>,
     message |-> <<"I", "n", "t", "e", "r", "n", "a", "l", " ", "e", "r", "r", "o", "r">>]
Errors ==
    {ErrUnderpriced,
     ErrKnownTransaction,
     ErrGasPriceTooLow,
     ErrSameHash,
     ErrGatewayTimeout,
     ErrNonceTooLow,
     ErrInsufficientFunds,
     ErrRejected}

\* Variant: the message is matched as it is, without toLowerCase.
ErrorMessage_CaseSensitive(error) ==
    IF error.value # <<>> THEN error.value ELSE error.message

\* line 203
ErrorMessage(error) ==
    IF error.value # <<>> THEN toLowerCase(error.value) ELSE toLowerCase(error.message)

\* lines 204-213
isKnownTx(errorMessage) ==
    \/ includes(errorMessage, KnownUnderpriced)
    \/ includes(errorMessage, KnownKnownTransaction)
    \/ includes(errorMessage, KnownGasPriceTooLow)
    \/ includes(errorMessage, KnownSameHash)
    \/ includes(errorMessage, KnownGatewayTimeout)
    \/ includes(errorMessage, KnownNonceTooLow)

ResubEvent(kind, id, block) == [kind |-> kind, id |-> id, block |-> block]

\* The tx:block-update listener records the first retry block on the item.
OnBlockUpdate(tx, latestBlockNumber) ==
    IF tx.firstRetryBlockNumber = <<>>
    THEN [tx EXCEPT !.firstRetryBlockNumber = latestBlockNumber] ELSE tx

\* The tx:retry listener counts the successful broadcast.
OnRetry(tx) ==
    [tx EXCEPT !.retryCount = IF @ = <<>> THEN <<1>> ELSE <<@[1] + 1>>]

RECURSIVE Pow2(_)
Pow2(n) == IF n = 0 THEN 1 ELSE 2 * Pow2(n - 1)

\* Variant: the backoff test of line 244 is < instead of <=.
BackoffSkips_Strict(txBlockDistance, retryCount) ==
    txBlockDistance < Pow2(retryCount) - 1

\* Variant: an item that has never been retried is not made to wait.
BackoffSkips_NotAtZero(txBlockDistance, retryCount) ==
    retryCount > 0 /\ txBlockDistance <= Pow2(retryCount) - 1

\* line 244
BackoffSkips(txBlockDistance, retryCount) ==
    txBlockDistance <= Pow2(retryCount) - 1

\* Variant: tx:block-update is emitted on every tick.
ResubPrefix_AlwaysBlockUpdate(i, tx, latestBlockNumber) ==
    LET blockUpdate == <<ResubEvent("tx:block-update", i, latestBlockNumber)>>
        firstRetryBlockNumber == IF tx.firstRetryBlockNumber # <<>>
                                 THEN tx.firstRetryBlockNumber ELSE latestBlockNumber
        txBlockDistance == ParseInt16(latestBlockNumber) - ParseInt16(firstRetryBlockNumber)
        retryCount == IF tx.retryCount = <<>> THEN 0 ELSE tx.retryCount[1]
        base == [IdleResub EXCEPT !.emitted = blockUpdate, !.latest = latestBlockNumber,
                                  !.first = firstRetryBlockNumber,
                                  !.retryCount = retryCount]
    IN  IF BackoffSkips(txBlockDistance, retryCount) THEN [base EXCEPT !.pc = "done"]
        ELSE IF ~tx.rawTx THEN [base EXCEPT !.pc = "approve", !.called = "approve"]
        ELSE [base EXCEPT !.pc = "publish", !.called = "publish"]

\* _resubmitTx up to its first await (lines 234-250); tx is the item after the
\* tx:block-update listener has run.
ResubPrefix(i, tx, latestBlockNumber) ==
    LET blockUpdate == IF txs[i].firstRetryBlockNumber = <<>>
                       THEN <<ResubEvent("tx:block-update", i, latestBlockNumber)>>
                       ELSE <<>>
        firstRetryBlockNumber == IF tx.firstRetryBlockNumber # <<>>
                                 THEN tx.firstRetryBlockNumber ELSE latestBlockNumber
        txBlockDistance == ParseInt16(latestBlockNumber) - ParseInt16(firstRetryBlockNumber)
        retryCount == IF tx.retryCount = <<>> THEN 0 ELSE tx.retryCount[1]
        base == [IdleResub EXCEPT !.emitted = blockUpdate, !.latest = latestBlockNumber,
                                  !.first = firstRetryBlockNumber,
                                  !.retryCount = retryCount]
    IN  IF BackoffSkips(txBlockDistance, retryCount) THEN [base EXCEPT !.pc = "done"]
        ELSE IF ~tx.rawTx THEN [base EXCEPT !.pc = "approve", !.called = "approve"]
        ELSE [base EXCEPT !.pc = "publish", !.called = "publish"]

AgedResub(s) ==
    IF s[1] > 0 /\ Resubmitting(resubs[<<s[1] - 1, s[2]>>])
    THEN resubs[<<s[1] - 1, s[2]>>] ELSE IdleResub

\* lines 189-224: a new block; every _resubmitTx runs to its first await.
\* Block numbers do not decrease.
ResubmitPendingTxs ==
    /\ \A i \in Ids : ~Resubmitting(resubs[<<MaxInFlight - 1, i>>])
    /\ \E b \in latestBlock..(BlockBase + BlockSpan) :
        LET blockNumber == ToHex(b)
            updated == [i \in Ids |->
                          IF i \in pending THEN OnBlockUpdate(txs[i], blockNumber)
                          ELSE txs[i]]
        IN  /\ latestBlock' = b
            /\ resubmitted' = resubmitted \cup pending
            /\ txs' = updated
            /\ resubs' = [s \in Slots |->
                            IF s[1] = 0 /\ s[2] \in pending
                            THEN ResubPrefix(s[2], updated[s[2]], blockNumber)
                            ELSE AgedResub(s)]
    /\ UNCHANGED <<pending, completed, droppedBlocksBufferByHash, lockHeld, upd, checks,
                   observations>>

\* The lower-cased message and its classification, per error.
LoweredMessage == [error \in Errors |-> ErrorMessage(error)]
KnownErrors == {error \in Errors : isKnownTx(LoweredMessage[error])}

\* Variant: an unknown error fails the transaction instead of warning.
CatchResubmitError_Fails(s, error) ==
    LET errorMessage == LoweredMessage[error]
    IN  IF error \in KnownErrors THEN
            /\ resubs' = [resubs EXCEPT ![s] = [@ EXCEPT !.pc = "done", !.error = error]]
            /\ txs' = txs
        ELSE
            /\ resubs' = [resubs EXCEPT ![s] =
                 [@ EXCEPT !.pc = "done", !.error = error,
                           !.emitted = Append(@, ResubEvent("tx:failed", s[2], <<>>))]]
            /\ txs' = [txs EXCEPT ![s[2]].status = "failed"]

\* lines 203-221: the catch handler of resubmitPendingTxs.
CatchResubmitError(s, error) ==
    LET errorMessage == LoweredMessage[error]
    IN  IF error \in KnownErrors THEN
            /\ resubs' = [resubs EXCEPT ![s] = [@ EXCEPT !.pc = "done", !.error = error]]
            /\ txs' = txs
        ELSE
            /\ resubs' = [resubs EXCEPT ![s] =
                 [@ EXCEPT !.pc = "done", !.error = error,
                           !.emitted = Append(@, ResubEvent("tx:warning", s[2], <<>>))]]
            /\ txs' = [txs EXCEPT ![s[2]].warning =
                 [error |-> errorMessage,
                  message |-> "There was an error when resubmitting this transaction."]]

\* line 247: approveTransaction resolves.
ApproveOk(s) ==
    /\ resubs[s].pc = "approve"
    /\ resubs' = [resubs EXCEPT ![s] = [@ EXCEPT !.pc = "done"]]
    /\ UNCHANGED <<txs, pending, completed, droppedBlocksBufferByHash, lockHeld, upd, checks,
                   observations, latestBlock, resubmitted>>

\* line 247: approveTransaction rejects.
ApproveFails(s) ==
    /\ resubs[s].pc = "approve"
    /\ \E error \in Errors : CatchResubmitError(s, error)
    /\ UNCHANGED <<pending, completed, droppedBlocksBufferByHash, lockHeld, upd, checks,
                   observations, latestBlock, resubmitted>>

\* lines 250-254: publishTransaction resolves; tx:retry is emitted.
PublishOk(s) ==
    /\ resubs[s].pc = "publish"
    /\ resubs' = [resubs EXCEPT ![s] =
         [@ EXCEPT !.pc = "done",
                   !.emitted = Append(@, ResubEvent("tx:retry", s[2], <<>>))]]
    /\ txs' = [txs EXCEPT ![s[2]] = OnRetry(@)]
    /\ UNCHANGED <<pending, completed, droppedBlocksBufferByHash, lockHeld, upd, checks,
                   observations, latestBlock, resubmitted>>

\* Variant: tx:retry is emitted although publishTransaction rejected.
PublishFails_EmitsRetry(s) ==
    /\ resubs[s].pc = "publish"
    /\ \E error \in Errors :
         resubs' = [resubs EXCEPT ![s] =
           [@ EXCEPT !.pc = "done", !.error = error,
                     !.emitted = Append(@, ResubEvent("tx:retry", s[2], <<>>))]]
    /\ txs' = txs
    /\ UNCHANGED <<pending, completed, droppedBlocksBufferByHash, lockHeld, upd, checks,
                   observations, latestBlock, resubmitted>>

\* line 250: publishTransaction rejects.
PublishFails(s) ==
    /\ resubs[s].pc = "publish"
    /\ \E error \in Errors : CatchResubmitError(s, error)
    /\ UNCHANGED <<pending, completed, droppedBlocksBufferByHash, lockHeld, upd, checks,
                   observations, latestBlock, resubmitted>>

\* _resubmitTx shares no state between items: one item is resubmitted, signed
\* or not yet signed.
ResubTx(i) ==
    {[AbsentTx(i) EXCEPT !.status = "submitted", !.hash = HashOf(i), !.rawTx = raw] :
        raw \in BOOLEAN}

ResubmitInit ==
    /\ pending \in {{}, {1}}
    /\ txs \in [Ids -> UNION {ResubTx(i) \cup {AbsentTx(i)} : i \in Ids}]
    /\ \A i \in Ids :
        IF i \in pending THEN txs[i] \in ResubTx(i) ELSE txs[i] = AbsentTx(i)
    /\ completed = {}
    /\ droppedBlocksBufferByHash = <<>>
    /\ lockHeld = FALSE
    /\ upd = IdleUpd
    /\ checks = [s \in Slots |-> IdleCheck]
    /\ observations = [h \in Hashes |-> 0]
    /\ resubs = [s \in Slots |-> IdleResub]
    /\ latestBlock = BlockBase
    /\ resubmitted = {}

ResubmitNext ==
    \/ ResubmitPendingTxs
    \/ \E s \in Slots : ApproveOk(s)
    \/ \E s \in Slots : ApproveFails(s)
    \/ \E s \in Slots : PublishOk(s)
    \/ \E s \in Slots : PublishFails(s)

ResubmitSpec == ResubmitInit /\ [][ResubmitNext]_vars

\* ================================================================ claims
Started(s) == checks[s].pc # "idle"
Item(s) == txs[s[2]]
LedgerQueries == {"getTransactionReceipt", "getBlockByHash", "getTransactionCount"}
Terminal == {"tx:confirmed", "tx:dropped", "tx:failed"}
\* Another completed item of the same sender carries the item's nonce.
Collides(i) ==
    \E c \in completed : c.from = txs[i].from /\ c.nonce = txs[i].nonce /\ c.id # i
Eligible(s) ==
    /\ Started(s)
    /\ Item(s).status = "submitted"
    /\ Item(s).hash # NoHash
    /\ checks[s].failed # "getCompletedTransactions"

\* C1: the nonce global lock is never released while a per-item check started by
\* that tick is still in progress: every check that still awaits a ledger reply
\* belongs to the latest tick, and that tick still holds the lock.
C1_NoReleaseWhileChecking ==
    \A s \in Slots :
        Running(checks[s]) => (s[1] = 0 /\ upd.pc = "awaiting" /\ lockHeld)

\* C2: an invocation that acquired the lock holds it until it returns, returns
\* whenever the collaborators reply, and has then released the lock exactly once
\* without passing an error to its caller.
C2_ReleasedExactlyOnce ==
    /\ [](upd.pc = "awaiting" => (lockHeld /\ upd.acquired = 1 /\ upd.released = 0))
    /\ []((upd.pc = "returned" /\ upd.acquired = 1) =>
            (upd.released = 1 /\ ~lockHeld /\ ~upd.threw))
    /\ ((upd.pc = "awaiting") ~> (upd.pc = "returned"))

C2_Witness ==
    /\ upd.pc = "returned"
    /\ upd.acquired = 1
    /\ upd.released = 1
    /\ upd.logged
    /\ \E i \in pending : Running(checks[<<0, i>>])

\* C3: the k-th observation of a hash with a superseded nonce and no receipt
\* emits nothing and leaves the hash in the buffer for k = 1, 2, 3; the 4th emits
\* tx:dropped and removes the hash from the buffer.
C3_DroppedOnFourthObservation ==
    [][\A s \in Slots :
        LET h == Item(s).hash
            k == observations[h] + 1
        IN  (checks[s].pc = "nonce" /\ checks'[s].pc = "done"
                /\ observations' # observations) =>
              /\ k <= DROPPED_BUFFER_COUNT + 1
              /\ k <= DROPPED_BUFFER_COUNT =>
                    /\ checks'[s].emitted = <<>>
                    /\ h \in DOMAIN droppedBlocksBufferByHash'
              /\ k = DROPPED_BUFFER_COUNT + 1 =>
                    /\ checks'[s].emitted = <<Event("tx:dropped", s[2])>>
                    /\ h \notin DOMAIN droppedBlocksBufferByHash'
      ]_vars

C3_Witness ==
    \E s \in Slots :
        /\ checks[s].pc = "done"
        /\ checks[s].queries = <<"getTransactionReceipt", "getTransactionCount">>
        /\ checks[s].emitted = <<Event("tx:dropped", s[2])>>
        /\ observations[Item(s).hash] = 0

\* C4: a receipt with a block number followed by a successful block query gives
\* exactly one notification, tx:confirmed with that receipt and that block's base fee.
C4_ConfirmedOnce ==
    \A s \in Slots :
        (Eligible(s) /\ ~Collides(s[2]) /\ HasBlockNumber(checks[s].rcpt)
            /\ checks[s].block # <<>>) =>
          /\ checks[s].pc = "done"
          /\ checks[s].emitted =
               <<[kind |-> "tx:confirmed", id |-> s[2], rcpt |-> checks[s].rcpt,
                  baseFee |-> checks[s].block[1].baseFeePerGas, err |-> ""]>>

C4_Witness ==
    \E s \in Slots :
        /\ Eligible(s) /\ ~Collides(s[2])
        /\ checks[s].block # <<>>
        /\ checks[s].emitted[1].kind = "tx:confirmed"

C6_MissingHashFails ==
    \A s \in Slots :
        (Started(s) /\ Item(s).status = "submitted" /\ Item(s).hash = NoHash) =>
          /\ checks[s].pc = "done"
          /\ checks[s].emitted =
               <<[kind |-> "tx:failed", id |-> s[2], rcpt |-> NullReceipt,
                  baseFee |-> 0, err |-> "NoTxHashError"]>>
          /\ checks[s].queries = <<>>

C6_Witness ==
    \E s \in Slots :
        /\ Started(s) /\ Item(s).status = "submitted" /\ Item(s).hash = NoHash
        /\ Collides(s[2])
        /\ checks[s].emitted[1].kind = "tx:failed"

\* C7: whenever a ledger query of a check fails, the error is recorded as the
\* item's warning and exactly one tx:warning, and nothing else, is emitted.
C7_QueryFailureWarns ==
    \A s \in Slots :
        checks[s].failed \in LedgerQueries =>
          /\ Len(checks[s].emitted) = 1
          /\ checks[s].emitted[1].kind = "tx:warning"
          /\ Item(s).warning # NoWarning

\* C8: a check that awaits a reply is changed by nothing but its own replies;
\* a sibling's failure and the return of updatePendingTxs leave it in flight.
C8_SiblingsStillEvaluated ==
    [][\A s \in Slots :
        Running(checks[s]) =>
          \/ checks'[s] = checks[s]
          \/ CheckStep(s)
          \/ (s[1] + 1 \in Gens /\ checks'[<<s[1] + 1, s[2]>>] = checks[s])
      ]_vars

C8_Witness ==
    /\ upd.pc = "returned"
    /\ upd.logged
    /\ \E i \in pending :
        /\ checks[<<0, i>>].pc = "done"
        /\ Len(checks[<<0, i>>].emitted) = 1

\* C9: a check emits at most one notification, so an item gets at most one
\* notification, terminal or not, from one tick.
C9_AtMostOneNotification ==
    \A s \in Slots : Len(checks[s].emitted) <= 1

C9_Witness ==
    /\ upd.pc = "awaiting"
    /\ \A i \in Ids :
        /\ Len(checks[<<0, i>>].emitted) = 1
        /\ checks[<<0, i>>].emitted[1].kind \in Terminal

\* C10: a resubmission with retry count r at block distance d calls neither
\* publish nor approve and emits no tx:retry when d <= 2^r - 1, and calls one of
\* them when d > 2^r - 1; with r = 2 it skips at d = 3 and attempts at d = 4.
Distance(c) == ParseInt16(c.latest) - ParseInt16(c.first)
Threshold(r) == 2^r - 1
C10_Backoff ==
    \A s \in Slots :
        resubs[s].pc # "idle" =>
          LET c == resubs[s]
              attempted == c.called \in {"publish", "approve"}
              retried == \E k \in 1..Len(c.emitted) : c.emitted[k].kind = "tx:retry"
          IN  /\ Distance(c) <= Threshold(c.retryCount) => (~attempted /\ ~retried)
              /\ Distance(c) > Threshold(c.retryCount) => attempted
              /\ (c.retryCount = 2 /\ Distance(c) = 3) => ~attempted
              /\ (c.retryCount = 2 /\ Distance(c) = 4) => attempted

C10_Witness ==
    \E s \in Slots :
        /\ resubs[s].retryCount = 2
        /\ Distance(resubs[s]) = 4
        /\ resubs[s].called = "publish"
        /\ resubs[s].pc = "done"
        /\ resubs[s].emitted = <<ResubEvent("tx:retry", s[2], <<>>)>>

\* C11: a resubmission that fails with an error whose message contains one of
\* the known-benign texts, in any letter case, emits nothing and leaves the
\* item's status and warning record as they were.
SameLetter(a, b) == ToLowerChar(a) = ToLowerChar(b)
ContainsAnyCase(m, sub) ==
    \E k \in 0..(Len(m) - Len(sub)) : \A j \in 1..Len(sub) : SameLetter(m[k + j], sub[j])
BenignTexts ==
    {KnownUnderpriced, KnownKnownTransaction, KnownGasPriceTooLow, KnownSameHash,
     KnownGatewayTimeout, KnownNonceTooLow}
\* The message the handler reads: error.value.message when there is one.
MessageOf(error) == IF error.value # <<>> THEN error.value ELSE error.message
BenignErrors == {e \in Errors : \E t \in BenignTexts : ContainsAnyCase(MessageOf(e), t)}
FailsWith(s, E) ==
    /\ Resubmitting(resubs[s])
    /\ resubs'[s].pc = "done"
    /\ resubs'[s].error \in E
C11_BenignErrorIgnored ==
    [][\A s \in Slots :
        FailsWith(s, BenignErrors) =>
          /\ resubs'[s].emitted = resubs[s].emitted
          /\ txs'[s[2]].warning = txs[s[2]].warning
          /\ txs'[s[2]].status = txs[s[2]].status
      ]_vars

C11_Witness ==
    \E s \in Slots :
        /\ resubs[s].pc = "done"
        /\ resubs[s].error = ErrNonceTooLow
        /\ resubs[s].called = "publish"
        /\ resubs[s].emitted = <<>>
        /\ Item(s).warning = NoWarning

Emits(c, kind) == \E k \in 1..Len(c.emitted) : c.emitted[k].kind = kind

\* C17: tx:block-update is emitted for an item only on the first resubmit tick
\* that processes it and carries that tick's block number; after that tick the
\* item's first-retry block is that block, and later ticks measure the distance
\* from it and emit no tx:block-update.
C17_BlockUpdateOnce ==
    [][ResubmitPendingTxs =>
        \A i \in pending :
            LET c == resubs'[<<0, i>>]
            IN  IF i \notin resubmitted
                THEN /\ c.emitted[1] = ResubEvent("tx:block-update", i, ToHex(latestBlock'))
                     /\ txs'[i].firstRetryBlockNumber = ToHex(latestBlock')
                     /\ c.first = ToHex(latestBlock')
                ELSE /\ ~Emits(c, "tx:block-update")
                     /\ txs'[i].firstRetryBlockNumber = txs[i].firstRetryBlockNumber
                     /\ c.first = txs[i].firstRetryBlockNumber
                     /\ c.latest = ToHex(latestBlock')
      ]_vars

C17_Witness ==
    \E i \in pending :
        /\ i \in resubmitted
        /\ resubs[<<0, i>>].pc # "idle"
        /\ resubs[<<0, i>>].emitted = <<>>
        /\ resubs[<<0, i>>].first = Item(<<0, i>>).firstRetryBlockNumber
        /\ Distance(resubs[<<0, i>>]) = 2

\* C18 as stated: with retry count 0 the item waits 0 blocks, so at distance 0
\* from its first-retry block it is resubmitted on that tick.
C18_ZeroWaitsZero ==
    \A s \in Slots :
        (resubs[s].pc # "idle" /\ resubs[s].retryCount = 0 /\ Distance(resubs[s]) = 0)
            => resubs[s].called # ""

\* C18, amended: with retry count 0 the item is not resubmitted at distance 0,
\* which is the tick that emits its tx:block-update; it is resubmitted at
\* distance 1 or more.
C18_ZeroWaitsOne ==
    \A s \in Slots :
        (resubs[s].pc # "idle" /\ resubs[s].retryCount = 0) =>
            /\ (resubs[s].called # "") <=> (Distance(resubs[s]) >= 1)
            /\ Emits(resubs[s], "tx:block-update") =>
                 (resubs[s].called = "" /\ ~Emits(resubs[s], "tx:retry"))

C18_Witness ==
    \E s \in Slots :
        /\ resubs[s].pc = "done"
        /\ resubs[s].retryCount = 0
        /\ Distance(resubs[s]) = 0
        /\ resubs[s].called = ""
        /\ resubs[s].emitted = <<ResubEvent("tx:block-update", s[2], resubs[s].latest)>>

\* C19: once the backoff has elapsed, an item without a signed raw payload is
\* handed to approveTransaction and is neither published nor followed by
\* tx:retry; an item with one is published, and tx:retry is emitted exactly
\* when the publish has returned without error.
C19_ApproveOrPublish ==
    \A s \in Slots :
        LET c == resubs[s]
        IN  c.pc # "idle" =>
              /\ Distance(c) > Threshold(c.retryCount) =>
                   c.called = IF Item(s).rawTx THEN "publish" ELSE "approve"
              /\ c.called # "publish" => ~Emits(c, "tx:retry")
              /\ c.called = "publish" =>
                   (Emits(c, "tx:retry") <=> (c.pc = "done" /\ c.error = NoError))

C19_Witness ==
    \E s \in Slots :
        /\ ~Item(s).rawTx
        /\ resubs[s].called = "approve"
        /\ resubs[s].pc = "done"
        /\ resubs[s].error = NoError
        /\ Distance(resubs[s]) > Threshold(resubs[s].retryCount)
        /\ ~Emits(resubs[s], "tx:retry")

\* The check in slot s ends on this step.
Ends(s) == Running(checks[s]) /\ checks'[s].pc = "done"
\* It ends on a getTransactionCount reply that does not supersede the nonce.
EndsUnconsumed(s) == Ends(s) /\ checks[s].pc = "nonce" /\ observations' = observations
EndsWith(s, kinds) ==
    Ends(s) /\ \E k \in 1..Len(checks'[s].emitted) : checks'[s].emitted[k].kind \in kinds
SameEntry(h) ==
    /\ (h \in DOMAIN droppedBlocksBufferByHash) <=> (h \in DOMAIN droppedBlocksBufferByHash')
    /\ h \in DOMAIN droppedBlocksBufferByHash =>
         droppedBlocksBufferByHash'[h] = droppedBlocksBufferByHash[h]

\* C13: a check of a submitted item with a hash, no nonce collision and no
\* receipt that finds the nonce not below the network's next nonce emits
\* nothing and leaves the dropped-block buffer and the item as they were, on
\* every tick.
C13_UnconsumedNonceIsIdempotent ==
    [][\A s \in Slots :
        EndsUnconsumed(s) =>
          /\ checks'[s].emitted = <<>>
          /\ droppedBlocksBufferByHash' = droppedBlocksBufferByHash
          /\ txs' = txs
      ]_vars

C13_Witness ==
    \E s \in Slots :
        /\ Item(s).status = "submitted"
        /\ ~Collides(s[2])
        /\ checks[s].pc = "done"
        /\ checks[s].queries = <<"getTransactionReceipt", "getTransactionCount">>
        /\ checks[s].emitted = <<>>
        /\ Item(s).hash \notin DOMAIN droppedBlocksBufferByHash
        /\ upd.released >= 1

\* C14: for a pending item whose status is not "submitted" a tick emits
\* nothing, sends no ledger query, does not look up the completed set, and
\* leaves the item and the dropped-block buffer as they were.
C14_NotSubmittedUntouched ==
    /\ [](\A s \in Slots :
            (Started(s) /\ Item(s).status # "submitted") =>
               /\ checks[s].pc = "done"
               /\ checks[s].emitted = <<>>
               /\ checks[s].queries = <<>>
               /\ checks[s].failed = "")
    /\ [][UpdStart =>
            \A i \in pending :
                txs[i].status # "submitted" =>
                  /\ txs'[i] = txs[i]
                  /\ droppedBlocksBufferByHash' = droppedBlocksBufferByHash
         ]_vars

C14_Witness ==
    \E s \in Slots :
        /\ Started(s)
        /\ Item(s).status # "submitted"
        /\ Item(s).hash # NoHash
        /\ Collides(s[2])
        /\ checks[s] = [IdleCheck EXCEPT !.pc = "done"]

\* C15: superseded-nonce observations count toward the drop threshold only
\* while they are consecutive: when a check of the item ends on a nonce that is
\* not yet consumed, or in a transient-error warning, no count is kept for its
\* hash.
C15_OnlyConsecutiveCount ==
    [][\A s \in Slots :
        (EndsUnconsumed(s) \/ EndsWith(s, {"tx:warning"})) =>
            Item(s).hash \notin DOMAIN droppedBlocksBufferByHash'
      ]_vars

\* C16: once an item is confirmed, dropped or failed, the dropped-block buffer
\* holds no entry for its hash.
C16_NoEntryAfterTerminal ==
    [][\A s \in Slots :
        EndsWith(s, Terminal) => Item(s).hash \notin DOMAIN droppedBlocksBufferByHash'
      ]_vars

\* C20: whatever the interleaving of the per-item checks, no increment of the
\* dropped-block buffer is lost, every counter lies in 1..DROPPED_BUFFER_COUNT,
\* an entry is deleted only when its counter was DROPPED_BUFFER_COUNT, and a
\* check never changes the entry of another hash.
C20_BufferStepsAtomic ==
    /\ [](\A h \in Hashes :
            IF h \in DOMAIN droppedBlocksBufferByHash
            THEN /\ droppedBlocksBufferByHash[h] \in 1..DROPPED_BUFFER_COUNT
                 /\ droppedBlocksBufferByHash[h] = observations[h]
            ELSE observations[h] = 0)
    /\ [][\A h \in DOMAIN droppedBlocksBufferByHash :
            h \notin DOMAIN droppedBlocksBufferByHash' =>
                droppedBlocksBufferByHash[h] = DROPPED_BUFFER_COUNT
         ]_vars
    /\ [][\A s \in Slots :
            (Running(checks[s]) /\ checks'[s] # checks[s]) =>
                \A h \in Hashes \ {Item(s).hash} : SameEntry(h)
         ]_vars

C20_Witness ==
    \E i \in Ids :
        /\ checks[<<0, i>>].pc = "done"
        /\ checks[<<1, i>>].pc = "done"
        /\ checks[<<0, i>>].queries = <<"getTransactionReceipt", "getTransactionCount">>
        /\ checks[<<1, i>>].queries = <<"getTransactionReceipt", "getTransactionCount">>
        /\ txs[i].hash \in DOMAIN droppedBlocksBufferByHash
        /\ droppedBlocksBufferByHash[txs[i].hash] = 2
        /\ observations[txs[i].hash] = 2

====
